---- MODULE Spec2Model ----
(***************************************************************************)
(* The in-memory storage backend of the sync server                        *)
(* (core/src/inmemory.rs) behind the storage contract                      *)
(* (core/src/storage.rs): the four maps of Inner, the Mutex that guards    *)
(* them, and the InnerTxn objects that threads open, use and drop.         *)
(***************************************************************************)
EXTENDS Integers, Sequences, FiniteSets, TLC

\* ------------------------------------------------------------------ bounds

\* Number of threads that call Storage::txn on the one backend instance.
NumThreads == 2

\* The transactions of one run make at most MaxWrites successful writes
\* (new_client, set_snapshot, add_version) between them. This also bounds how
\* far versions_since counts up from the number a caller passed.
MaxWrites == 3

\* Snapshot::versions_since is a u32. A u32 is kept as its two 16-bit halves
\* << high, low >>, each below Half, so that the values next to the upper
\* limit fit the 32-bit integers of the model.
Half == 65536

U32(k) == << k \div Half, k % Half >>

U32Max == << Half - 1, Half - 1 >>


Threads == 1 .. NumThreads

\* Uuid values used as client ids.
ClientIds == {"c1", "c2"}

\* Uuid values used as version ids and parent version ids.
VersionIds == {"v1", "v2"}

\* Vec<u8> values: history segments and snapshot data.
Bytes(b) == [bytes |-> b]

Payloads == {Bytes("abc"), Bytes("def")}

\* DateTime<Utc> values.
Timestamps == {"t1"}

\* versions_since values a caller passes to set_snapshot: the ends of the
\* u32 range.
SinceInputs == {U32(0), U32Max}

\* ------------------------------------------------------------------ values

\* Option<T>: None, Some(x).
None == << >>

Some(x) == << x >>

Unwrap(o) == o[1]

\* struct Snapshot
Snapshot == [version_id : VersionIds, timestamp : Timestamps, versions_since : SinceInputs]

\* struct Version
Version(version_id, parent_version_id, history_segment) ==
    [version_id |-> version_id,
     parent_version_id |-> parent_version_id,
     history_segment |-> history_segment]

\* struct Client
Client(latest_version_id, snapshot) ==
    [latest_version_id |-> latest_version_id, snapshot |-> snapshot]

\* anyhow::Result<T>: Ok(x), Err(message); Panic stands for a call that
\* unwinds instead of returning.
Ok(x) == [kind |-> "Ok", val |-> x]

Err(msg) == [kind |-> "Err", val |-> msg]

Panic(msg) == [kind |-> "Panic", val |-> msg]

\* The error messages of inmemory.rs, by the error kind they stand for.
ClientAlreadyExists == Err("Client already exists")

NoSuchClient == Err("no such client")

SnapshotMismatch == Err("unexpected snapshot_version_id")

ClientNotFound == Err("Client does not exist")

\* ------------------------------------------------------------------ state

VARIABLES
    clients,     \* Inner::clients: client id -> Option<Client>
    snapshots,   \* Inner::snapshots: client id -> Option<Vec<u8>>
    versions,    \* Inner::versions: (client id, version id) -> Option<Version>
    children,    \* Inner::children: (client id, parent version id) -> Option<Uuid>
    lock,        \* the Mutex: Some(thread holding the MutexGuard) or None
    poisoned,    \* the Mutex's poison flag
    pc,          \* per thread: "idle", "waiting" (inside lock()), "open", "panicked"
    written,     \* InnerTxn::written of the thread's transaction
    committed,   \* InnerTxn::committed of the thread's transaction
    result,      \* how the latest call ended: Ok, Err(message) or Panic(message)
    nwrites,     \* number of successful writes so far
    discarded    \* history: a transaction that changed the maps went away uncommitted

inner == << clients, snapshots, versions, children >>

vars ==
    << clients, snapshots, versions, children, lock, poisoned, pc, written, committed, result,
       nwrites, discarded >>

\* InMemoryStorage::new
Init ==
    /\ clients = [c \in ClientIds |-> None]
    /\ snapshots = [c \in ClientIds |-> None]
    /\ versions = [k \in ClientIds \X VersionIds |-> None]
    /\ children = [k \in ClientIds \X VersionIds |-> None]
    /\ lock = None
    /\ poisoned = FALSE
    /\ pc = [t \in Threads |-> "idle"]
    /\ written = [t \in Threads |-> FALSE]
    /\ committed = [t \in Threads |-> FALSE]
    /\ result = Ok(None)
    /\ nwrites = 0
    /\ discarded = FALSE

\* ------------------------------------------------------------------ the lock

\* The thread's stack unwinds while it holds (or is handed) the MutexGuard:
\* the guard is dropped by a panicking thread, which poisons the Mutex and
\* releases it; the transaction object is gone.
Unwind(t) ==
    /\ pc' = [pc EXCEPT ![t] = "panicked"]
    /\ lock' = None
    /\ poisoned' = TRUE
    /\ written' = [written EXCEPT ![t] = FALSE]
    /\ committed' = [committed EXCEPT ![t] = FALSE]

\* A thread enters InMemoryStorage::txn and blocks in Mutex::lock.
txn_call(t) ==
    /\ pc[t] = "idle"
    /\ pc' = [pc EXCEPT ![t] = "waiting"]
    /\ UNCHANGED << inner, lock, poisoned, written, committed, result, nwrites, discarded >>

\* txn as it would be if the lock were handed out while another guard is out.
txn_no_exclusion(t) ==
    /\ pc[t] = "waiting"
    /\ IF poisoned
       THEN /\ Unwind(t)
            /\ result' = Panic("poisoned lock")
       ELSE /\ lock' = Some(t)
            /\ pc' = [pc EXCEPT ![t] = "open"]
            /\ written' = [written EXCEPT ![t] = FALSE]
            /\ committed' = [committed EXCEPT ![t] = FALSE]
            /\ result' = Ok(None)
            /\ UNCHANGED poisoned
    /\ UNCHANGED << inner, nwrites, discarded >>

\* txn as it would be if a poisoned lock were taken over instead of refused.
txn_ignore_poison(t) ==
    /\ pc[t] = "waiting"
    /\ lock = None
    /\ lock' = Some(t)
    /\ pc' = [pc EXCEPT ![t] = "open"]
    /\ written' = [written EXCEPT ![t] = FALSE]
    /\ committed' = [committed EXCEPT ![t] = FALSE]
    /\ result' = Ok(None)
    /\ UNCHANGED << inner, poisoned, nwrites, discarded >>

\* InMemoryStorage::txn: Mutex::lock returns once no guard is out. A poisoned
\* Mutex makes expect("poisoned lock") panic; otherwise the thread owns a
\* fresh InnerTxn.
txn(t) ==
    /\ pc[t] = "waiting"
    /\ lock = None
    /\ IF poisoned
       THEN /\ Unwind(t)
            /\ result' = Panic("poisoned lock")
       ELSE /\ lock' = Some(t)
            /\ pc' = [pc EXCEPT ![t] = "open"]
            /\ written' = [written EXCEPT ![t] = FALSE]
            /\ committed' = [committed EXCEPT ![t] = FALSE]
            /\ result' = Ok(None)
            /\ UNCHANGED poisoned
    /\ UNCHANGED << inner, nwrites, discarded >>

\* ------------------------------------------------------------------ reads

\* The value InnerTxn::get_client returns.
get_client_result(c) == Ok(clients[c])

\* client.snapshot of a stored client; None for a client that is not stored.
SnapshotOf(c) == IF clients[c] = None THEN None ELSE Unwrap(clients[c]).snapshot

\* get_snapshot_data as it would be without the comparison of version_id with
\* the client's snapshot.
get_snapshot_data_result_unchecked(c, version_id) ==
    IF clients[c] = None THEN NoSuchClient ELSE Ok(snapshots[c])

\* The value InnerTxn::get_snapshot_data returns.
get_snapshot_data_result(c, version_id) ==
    IF clients[c] = None
    THEN NoSuchClient
    ELSE IF Some(version_id) #
              (IF SnapshotOf(c) = None THEN None ELSE Some(Unwrap(SnapshotOf(c)).version_id))
         THEN SnapshotMismatch
         ELSE Ok(snapshots[c])

\* get_version_by_parent as it would be if the version were looked up under
\* the parent's id instead of the child's.
get_version_by_parent_result_parent_key(c, parent_version_id) ==
    IF children[<< c, parent_version_id >>] # None
    THEN Ok(versions[<< c, parent_version_id >>])
    ELSE Ok(None)

\* The value InnerTxn::get_version_by_parent returns.
get_version_by_parent_result(c, parent_version_id) ==
    IF children[<< c, parent_version_id >>] # None
    THEN Ok(versions[<< c, Unwrap(children[<< c, parent_version_id >>]) >>])
    ELSE Ok(None)

\* The value InnerTxn::get_version returns.
get_version_result(c, version_id) == Ok(versions[<< c, version_id >>])

\* How a call that returns res ended: the error if it is one. The value
\* inside an Ok is handed to the caller and kept nowhere.
Ended(res) == IF res.kind = "Ok" THEN Ok(None) ELSE res

\* A reading call as it would be if it marked the transaction as written.
Read_marks_written(t, res) ==
    /\ pc[t] = "open"
    /\ result' = Ended(res)
    /\ written' = [written EXCEPT ![t] = TRUE]
    /\ UNCHANGED << inner, lock, poisoned, pc, committed, nwrites, discarded >>

\* A call that only reads and returns res.
Read(t, res) ==
    /\ pc[t] = "open"
    /\ result' = Ended(res)
    /\ UNCHANGED << inner, lock, poisoned, pc, written, committed, nwrites, discarded >>

\* InnerTxn::get_client
get_client(t, c) == Read(t, get_client_result(c))

\* InnerTxn::get_snapshot_data
get_snapshot_data(t, c, version_id) == Read(t, get_snapshot_data_result(c, version_id))

\* InnerTxn::get_version_by_parent
get_version_by_parent(t, c, parent_version_id) ==
    Read(t, get_version_by_parent_result(c, parent_version_id))

\* InnerTxn::get_version
get_version(t, c, version_id) == Read(t, get_version_result(c, version_id))

\* ------------------------------------------------------------------ writes

\* A writing method is called only while the write budget lasts.
WriteWithinBound == nwrites < MaxWrites

\* A write that returned Ok(()).
Wrote(t) ==
    /\ written' = [written EXCEPT ![t] = TRUE]
    /\ result' = Ok(None)
    /\ nwrites' = nwrites + 1

\* new_client as it would be without the contains_key check.
new_client_overwrite(t, c, latest_version_id) ==
    /\ pc[t] = "open"
    /\ WriteWithinBound
    /\ clients' = [clients EXCEPT ![c] = Some(Client(latest_version_id, None))]
    /\ Wrote(t)
    /\ UNCHANGED << snapshots, versions, children, lock, poisoned, pc, committed, discarded >>

\* InnerTxn::new_client
new_client(t, c, latest_version_id) ==
    /\ pc[t] = "open"
    /\ WriteWithinBound
    /\ IF clients[c] # None
       THEN /\ result' = ClientAlreadyExists
            /\ UNCHANGED << clients, written, nwrites >>
       ELSE /\ clients' = [clients EXCEPT ![c] = Some(Client(latest_version_id, None))]
            /\ Wrote(t)
    /\ UNCHANGED << snapshots, versions, children, lock, poisoned, pc, committed, discarded >>

\* set_snapshot as it would be if it refused a snapshot whose version_id is
\* not the id of a stored version of the client.
set_snapshot_stored_version(t, c, snapshot, data) ==
    /\ pc[t] = "open"
    /\ WriteWithinBound
    /\ IF clients[c] = None
       THEN /\ result' = NoSuchClient
            /\ UNCHANGED << clients, snapshots, written, nwrites >>
       ELSE IF versions[<< c, snapshot.version_id >>] = None
            THEN /\ result' = Err("no such version")
                 /\ UNCHANGED << clients, snapshots, written, nwrites >>
            ELSE /\ clients' = [clients EXCEPT
                                   ![c] = Some([Unwrap(clients[c]) EXCEPT
                                                   !.snapshot = Some(snapshot)])]
                 /\ snapshots' = [snapshots EXCEPT ![c] = Some(data)]
                 /\ Wrote(t)
    /\ UNCHANGED << versions, children, lock, poisoned, pc, committed, discarded >>

\* set_snapshot as it would be if the data were stored before the client is
\* looked up.
set_snapshot_data_first(t, c, snapshot, data) ==
    /\ pc[t] = "open"
    /\ WriteWithinBound
    /\ snapshots' = [snapshots EXCEPT ![c] = Some(data)]
    /\ IF clients[c] = None
       THEN /\ result' = NoSuchClient
            /\ UNCHANGED << clients, written, nwrites >>
       ELSE /\ clients' = [clients EXCEPT
                              ![c] = Some([Unwrap(clients[c]) EXCEPT !.snapshot = Some(snapshot)])]
            /\ Wrote(t)
    /\ UNCHANGED << versions, children, lock, poisoned, pc, committed, discarded >>

\* InnerTxn::set_snapshot
set_snapshot(t, c, snapshot, data) ==
    /\ pc[t] = "open"
    /\ WriteWithinBound
    /\ IF clients[c] = None
       THEN /\ result' = NoSuchClient
            /\ UNCHANGED << clients, snapshots, written, nwrites >>
       ELSE /\ clients' = [clients EXCEPT
                              ![c] = Some([Unwrap(clients[c]) EXCEPT !.snapshot = Some(snapshot)])]
            /\ snapshots' = [snapshots EXCEPT ![c] = Some(data)]
            /\ Wrote(t)
    /\ UNCHANGED << versions, children, lock, poisoned, pc, committed, discarded >>

\* `snap.versions_since += 1` of a build without overflow checks: u32
\* arithmetic wraps.
WrappingIncrement(n) ==
    IF n[2] + 1 < Half
    THEN << n[1], n[2] + 1 >>
    ELSE IF n[1] + 1 < Half THEN << n[1] + 1, 0 >> ELSE << 0, 0 >>

\* The client record if add_version did not assign latest_version_id.
ClientWithVersion_keep_latest(client, version_id) ==
    [latest_version_id |-> client.latest_version_id,
     snapshot |-> IF client.snapshot = None
                  THEN None
                  ELSE Some([Unwrap(client.snapshot) EXCEPT
                                !.versions_since = WrappingIncrement(@)])]

\* The client record after the first block of add_version: the latest
\* version id is replaced and the snapshot, if there is one, counts the
\* version.
ClientWithVersion(client, version_id) ==
    [latest_version_id |-> version_id,
     snapshot |-> IF client.snapshot = None
                  THEN None
                  ELSE Some([Unwrap(client.snapshot) EXCEPT
                                !.versions_since = WrappingIncrement(@)])]

\* `snap.versions_since += 1` overflows.
Overflows(c) ==
    IF SnapshotOf(c) = None THEN FALSE ELSE Unwrap(SnapshotOf(c)).versions_since = U32Max

\* add_version as it would be if the two maps were filled before the client
\* is looked up.
add_version_insert_first(t, c, version_id, parent_version_id, history_segment) ==
    /\ pc[t] = "open"
    /\ WriteWithinBound
    /\ children' = [children EXCEPT ![<< c, parent_version_id >>] = Some(version_id)]
    /\ versions' = [versions EXCEPT
                       ![<< c, version_id >>] =
                           Some(Version(version_id, parent_version_id, history_segment))]
    /\ IF clients[c] = None
       THEN /\ result' = ClientNotFound
            /\ UNCHANGED << clients, written, nwrites >>
       ELSE /\ clients' = [clients EXCEPT
                              ![c] = Some(ClientWithVersion(Unwrap(clients[c]), version_id))]
            /\ Wrote(t)
    /\ UNCHANGED << snapshots, lock, poisoned, pc, committed, discarded >>

\* add_version as it would be if an index entry that exists for the parent
\* were kept.
add_version_keep_child(t, c, version_id, parent_version_id, history_segment) ==
    /\ pc[t] = "open"
    /\ WriteWithinBound
    /\ IF clients[c] = None
       THEN /\ result' = ClientNotFound
            /\ UNCHANGED << clients, versions, children, written, nwrites >>
       ELSE /\ clients' = [clients EXCEPT
                              ![c] = Some(ClientWithVersion(Unwrap(clients[c]), version_id))]
            /\ children' = IF children[<< c, parent_version_id >>] = None
                           THEN [children EXCEPT
                                    ![<< c, parent_version_id >>] = Some(version_id)]
                           ELSE children
            /\ versions' = [versions EXCEPT
                               ![<< c, version_id >>] =
                                   Some(Version(version_id, parent_version_id, history_segment))]
            /\ Wrote(t)
    /\ UNCHANGED << snapshots, lock, poisoned, pc, committed, discarded >>

\* add_version as it would be if the index were keyed by the parent version
\* id alone, for all clients together.
add_version_shared_index(t, c, version_id, parent_version_id, history_segment) ==
    /\ pc[t] = "open"
    /\ WriteWithinBound
    /\ IF clients[c] = None
       THEN /\ result' = ClientNotFound
            /\ UNCHANGED << clients, versions, children, written, nwrites >>
       ELSE /\ clients' = [clients EXCEPT
                              ![c] = Some(ClientWithVersion(Unwrap(clients[c]), version_id))]
            /\ children' = [k \in ClientIds \X VersionIds |->
                               IF k[2] = parent_version_id
                               THEN Some(version_id)
                               ELSE children[k]]
            /\ versions' = [versions EXCEPT
                               ![<< c, version_id >>] =
                                   Some(Version(version_id, parent_version_id, history_segment))]
            /\ Wrote(t)
    /\ UNCHANGED << snapshots, lock, poisoned, pc, committed, discarded >>

\* InnerTxn::add_version, returning.
add_version(t, c, version_id, parent_version_id, history_segment) ==
    /\ pc[t] = "open"
    /\ WriteWithinBound
    /\ IF clients[c] = None
       THEN /\ result' = ClientNotFound
            /\ UNCHANGED << clients, versions, children, written, nwrites >>
       ELSE /\ clients' = [clients EXCEPT
                              ![c] = Some(ClientWithVersion(Unwrap(clients[c]), version_id))]
            /\ children' = [children EXCEPT ![<< c, parent_version_id >>] = Some(version_id)]
            /\ versions' = [versions EXCEPT
                               ![<< c, version_id >>] =
                                   Some(Version(version_id, parent_version_id, history_segment))]
            /\ Wrote(t)
    /\ UNCHANGED << snapshots, lock, poisoned, pc, committed, discarded >>

\* InnerTxn::add_version of a build with overflow checks (the default of a
\* debug build), on a snapshot whose versions_since is u32::MAX: the
\* increment panics after latest_version_id was assigned and before anything
\* else is stored.
add_version_overflow(t, c, version_id) ==
    /\ pc[t] = "open"
    /\ WriteWithinBound
    /\ Overflows(c)
    /\ clients' = [clients EXCEPT
                      ![c] = Some([Unwrap(clients[c]) EXCEPT !.latest_version_id = version_id])]
    /\ Unwind(t)
    /\ result' = Panic("attempt to add with overflow")
    /\ discarded' = (discarded \/ ~committed[t])
    /\ UNCHANGED << snapshots, versions, children, nwrites >>

\* commit as it would be if it gave the lock back and left the transaction
\* usable.
commit_unlock(t) ==
    /\ pc[t] = "open"
    /\ committed' = [committed EXCEPT ![t] = TRUE]
    /\ lock' = None
    /\ result' = Ok(None)
    /\ UNCHANGED << inner, poisoned, pc, written, nwrites, discarded >>

\* InnerTxn::commit
commit(t) ==
    /\ pc[t] = "open"
    /\ committed' = [committed EXCEPT ![t] = TRUE]
    /\ result' = Ok(None)
    /\ UNCHANGED << inner, lock, poisoned, pc, written, nwrites, discarded >>

\* The panic condition if drop looked at the committed flag alone.
DropPanics_uncommitted(t) == ~committed[t]

\* The panic condition of InnerTxn::drop.
DropPanics(t) == written[t] /\ ~committed[t]

\* drop as it would be if a transaction that goes away quietly kept the
\* Mutex locked.
drop_keep_lock(t) ==
    /\ pc[t] = "open"
    /\ IF DropPanics(t)
       THEN /\ Unwind(t)
            /\ result' = Panic("Uncommitted InMemoryStorage transaction dropped without commiting")
            /\ discarded' = TRUE
       ELSE /\ pc' = [pc EXCEPT ![t] = "idle"]
            /\ written' = [written EXCEPT ![t] = FALSE]
            /\ committed' = [committed EXCEPT ![t] = FALSE]
            /\ result' = Ok(None)
            /\ discarded' = (discarded \/ (written[t] /\ ~committed[t]))
            /\ UNCHANGED << lock, poisoned >>
    /\ UNCHANGED << inner, nwrites >>

\* The transaction goes out of scope: InnerTxn::drop, then the MutexGuard is
\* dropped, which releases the Mutex.
drop(t) ==
    /\ pc[t] = "open"
    /\ IF DropPanics(t)
       THEN /\ Unwind(t)
            /\ result' = Panic("Uncommitted InMemoryStorage transaction dropped without commiting")
            /\ discarded' = TRUE
       ELSE /\ pc' = [pc EXCEPT ![t] = "idle"]
            /\ lock' = None
            /\ written' = [written EXCEPT ![t] = FALSE]
            /\ committed' = [committed EXCEPT ![t] = FALSE]
            /\ result' = Ok(None)
            /\ discarded' = (discarded \/ (written[t] /\ ~committed[t]))
            /\ UNCHANGED poisoned
    /\ UNCHANGED << inner, nwrites >>

\* ------------------------------------------------------------------ the system

Next ==
    \E t \in Threads :
        \/ txn_call(t)
        \/ txn(t)
        \/ commit(t)
        \/ drop(t)
        \/ \E c \in ClientIds :
              \/ get_client(t, c)
              \/ \E v \in VersionIds :
                    \/ get_snapshot_data(t, c, v)
                    \/ get_version_by_parent(t, c, v)
                    \/ get_version(t, c, v)
                    \/ new_client(t, c, v)
                    \/ add_version_overflow(t, c, v)
                    \/ \E p \in VersionIds, d \in Payloads : add_version(t, c, v, p, d)
              \/ \E s \in Snapshot, d \in Payloads : set_snapshot(t, c, s, d)

Spec == Init /\ [][Next]_vars

\* The system under the conditions liveness is stated for: a thread blocked
\* in Mutex::lock gets the lock if it is free again and again, and every
\* transaction that is open is dropped in the end.
LiveSpec ==
    /\ Init
    /\ [][Next]_vars
    /\ \A t \in Threads : SF_vars(txn(t)) /\ WF_vars(drop(t))

\* ------------------------------------------------------------------ properties

\* The threads that own a transaction; only they can call its methods.
Owners == {t \in Threads : pc[t] = "open"}

\* A call of thread t on its transaction (txn and drop are not among them).
Operation(t) ==
    \/ commit(t)
    \/ \E c \in ClientIds :
          \/ get_client(t, c)
          \/ \E v \in VersionIds :
                \/ get_snapshot_data(t, c, v)
                \/ get_version_by_parent(t, c, v)
                \/ get_version(t, c, v)
                \/ new_client(t, c, v)
                \/ add_version_overflow(t, c, v)
                \/ \E p \in VersionIds, d \in Payloads : add_version(t, c, v, p, d)
          \/ \E s \in Snapshot, d \in Payloads : set_snapshot(t, c, s, d)

\* latest_version_id of a client as get_client reports it; None for a client
\* that is not stored.
LatestOf(c) == IF clients[c] = None THEN None ELSE Some(Unwrap(clients[c]).latest_version_id)

\* C1: once add_version(c, v, p, d) has succeeded, get_version(c, v) returns
\* the record {v, p, d} ever after: a stored version is never replaced,
\* changed or removed by any later step.
C1_StoredVersionNeverChanges ==
    [][\A c \in ClientIds, v \in VersionIds :
          get_version_result(c, v) # Ok(None) =>
              get_version_result(c, v)' = get_version_result(c, v)]_vars

\* C2: transactions do not overlap, so every execution is a serial one: a
\* call on a transaction is made by the thread that holds the lock, while no
\* other transaction is open and while the maps hold no writes of a
\* transaction that went away without committing.
C2_Serializable ==
    [][\A u \in Owners :
          \/ /\ lock = Some(u)
             /\ \A t \in Threads \ {u} : pc[t] # "open"
             /\ ~discarded
          \/ ~Operation(u)]_vars

\* C2 witness: a transaction with uncommitted writes is open while another
\* thread is inside txn().
C2_Witness ==
    \E t, u \in Threads :
        /\ t # u
        /\ pc[t] = "open"
        /\ written[t]
        /\ ~committed[t]
        /\ pc[u] = "waiting"

\* C3: once a transaction that wrote has been dropped without commit, no
\* transaction is open, so no call can return what it wrote.
C3_DiscardedWritesUnseen == discarded => \A t \in Threads : pc[t] # "open"

\* C3 witness: after such a drop, a thread has called txn() and got no
\* transaction.
C3_Witness == discarded /\ result = Panic("poisoned lock")

\* C4: dropping a transaction that wrote and was never committed panics;
\* dropping a transaction that wrote nothing returns normally and leaves the
\* lock usable, committed or not.
C4_DropPanicsOnUncommittedWrites ==
    [][\A t \in Owners :
          drop(t) =>
              /\ (written[t] /\ ~committed[t]) =>
                     (result'.kind = "Panic" /\ pc'[t] = "panicked")
              /\ ~written[t] =>
                     (result' = Ok(None) /\ pc'[t] = "idle" /\ poisoned' = poisoned)]_vars

\* C4 witness: a drop has panicked.
C4_Witness ==
    result = Panic("Uncommitted InMemoryStorage transaction dropped without commiting")

\* C5: commit() on a transaction on which commit() was already called
\* returns an error.
C5_SecondCommitFails ==
    [][\A t \in Owners : (committed[t] /\ commit(t)) => result'.kind = "Err"]_vars

\* C6: while the backend can be used, a successful add_version(c, v, ..)
\* makes v the latest_version_id of c, a successful new_client(c, v0) makes
\* it v0, and no other step changes the latest_version_id of c.
C6_LatestVersionId ==
    [][~poisoned' =>
          \A c \in ClientIds :
              /\ WriteWithinBound =>
                    \A t \in Owners, v \in VersionIds :
                        \/ LatestOf(c)' = Some(v)
                        \/ IF clients[c] = None
                           THEN ~new_client(t, c, v)
                           ELSE \A p \in VersionIds, d \in Payloads :
                                    ~add_version(t, c, v, p, d)
              /\ LatestOf(c)' # LatestOf(c) =>
                    \E t \in Owners, v \in VersionIds :
                        IF clients[c] = None
                        THEN new_client(t, c, v)
                        ELSE \E p \in VersionIds, d \in Payloads : add_version(t, c, v, p, d)]_vars

\* C6 witness: a client was created, given a snapshot and a version, and its
\* latest version is a stored one.
C6_Witness ==
    \E c \in ClientIds :
        /\ SnapshotOf(c) # None
        /\ versions[<< c, Unwrap(LatestOf(c)) >>] # None
        /\ nwrites = 3

\* C7: a client is absent until new_client creates it; a successful
\* new_client(c, v0) makes get_client(c) return {v0, no snapshot}; new_client
\* on a stored client returns the already-exists error and changes none of
\* the maps.
C7_NewClient ==
    [][/\ \A c \in ClientIds :
             (clients[c] = None /\ clients'[c] # None) =>
                 \E t \in Threads, v \in VersionIds : new_client(t, c, v)
       /\ WriteWithinBound =>
             \A t \in Owners, c \in ClientIds, v \in VersionIds :
                 new_client(t, c, v) =>
                     IF clients[c] = None
                     THEN /\ result' = Ok(None)
                          /\ get_client_result(c)' = Ok(Some(Client(v, None)))
                     ELSE /\ result' = ClientAlreadyExists
                          /\ UNCHANGED inner]_vars

\* C7 witness: new_client was refused.
C7_Witness == result = ClientAlreadyExists

\* C8: after a successful add_version(c, v1, v0, data) on a client whose
\* latest_version_id is v0 (as new_client(c, v0) leaves it), get_client(c)
\* has latest_version_id v1, and both get_version_by_parent(c, v0) and
\* get_version(c, v1) return {v1, v0, data}.
C8_AddVersionThenGet ==
    [][\A t \in Owners, c \in ClientIds :
          (clients[c] # None /\ WriteWithinBound) =>
              \A v \in VersionIds, v0 \in VersionIds, d \in Payloads :
                  (LatestOf(c) = Some(v0) /\ add_version(t, c, v, v0, d)) =>
                      /\ LatestOf(c)' = Some(v)
                      /\ get_version_by_parent_result(c, v0)' = Ok(Some(Version(v, v0, d)))
                      /\ get_version_result(c, v)' = Ok(Some(Version(v, v0, d)))]_vars

\* C8 witness: a version whose parent is the id the client was created with
\* is stored, indexed under its parent, and is the latest.
C8_Witness ==
    \E c \in ClientIds, v \in VersionIds, p \in VersionIds :
        /\ v # p
        /\ nwrites = 2
        /\ LatestOf(c) = Some(v)
        /\ children[<< c, p >>] = Some(v)
        /\ versions[<< c, v >>] # None
        /\ Unwrap(versions[<< c, v >>]).parent_version_id = p

\* C9: add_version for a client that is not stored returns the
\* does-not-exist error and changes neither the maps nor the written flag.
C9_AddVersionNoClient ==
    [][\A t \in Owners, c \in ClientIds :
          (clients[c] = None /\ WriteWithinBound) =>
              \A v \in VersionIds, p \in VersionIds, d \in Payloads :
                  add_version(t, c, v, p, d) =>
                      /\ result' = ClientNotFound
                      /\ UNCHANGED << inner, written >>]_vars

\* C9 witness: add_version was refused.
C9_Witness == result = ClientNotFound

\* n + 1 as a number, for a u32 n: one past the upper limit is not a u32.
Successor(n) == IF n[2] + 1 < Half THEN << n[1], n[2] + 1 >> ELSE << n[1] + 1, 0 >>

\* C10: a successful add_version on a client whose snapshot has
\* versions_since = n leaves the snapshot with versions_since = n + 1 and
\* nothing else of it changed; without a snapshot there is none afterwards;
\* the snapshot data is as before.
C10_VersionsSinceCounts ==
    [][\A t \in Owners, c \in ClientIds :
          (clients[c] # None /\ WriteWithinBound) =>
              \A v \in VersionIds, p \in VersionIds, d \in Payloads :
                  add_version(t, c, v, p, d) =>
                      /\ snapshots'[c] = snapshots[c]
                      /\ SnapshotOf(c)' =
                             (IF SnapshotOf(c) = None
                              THEN None
                              ELSE Some([Unwrap(SnapshotOf(c)) EXCEPT
                                            !.versions_since = Successor(@)]))]_vars

\* A step in which set_snapshot on client c returns Ok(()).
SetsSnapshot(c) ==
    /\ clients[c] # None
    /\ WriteWithinBound
    /\ \E t \in Owners, s \in Snapshot, d \in Payloads : set_snapshot(t, c, s, d)

\* C11: get_snapshot_data fails with the no-such-client error for a client
\* that is not stored and with the mismatch error, for every version id,
\* for a client without snapshot. A successful set_snapshot(c, {version_id:
\* v, ..}, payload) makes get_snapshot_data(c, v) return payload and
\* get_snapshot_data(c, v') fail with the mismatch error for every other v',
\* the version_id of the snapshot it replaced included; and these answers
\* stay as they are until the next successful set_snapshot on c.
C11_SnapshotData ==
    /\ [](\A c \in ClientIds, v \in VersionIds :
             /\ clients[c] = None => get_snapshot_data_result(c, v) = NoSuchClient
             /\ (clients[c] # None /\ SnapshotOf(c) = None) =>
                    get_snapshot_data_result(c, v) = SnapshotMismatch)
    /\ [][\A c \in ClientIds :
              clients[c] # None =>
                  IF SetsSnapshot(c)
                  THEN \A t \in Owners, s \in Snapshot, d \in Payloads :
                           set_snapshot(t, c, s, d) =>
                               \A v \in VersionIds :
                                   get_snapshot_data_result(c, v)' =
                                       (IF v = s.version_id THEN Ok(Some(d)) ELSE SnapshotMismatch)
                  ELSE \A v \in VersionIds :
                           get_snapshot_data_result(c, v)' = get_snapshot_data_result(c, v)]_vars

\* C11 witness: the only stored client was given a snapshot twice, nothing
\* else was written, and a get_snapshot_data on it was refused for its
\* version id.
C11_Witness ==
    \E c \in ClientIds :
        /\ \A c2 \in ClientIds \ {c} : clients[c2] = None
        /\ \A k \in ClientIds \X VersionIds : versions[k] = None
        /\ SnapshotOf(c) # None
        /\ nwrites = 3
        /\ result = SnapshotMismatch

\* C12 as stated: whenever a client has a snapshot, a version with the
\* snapshot's version_id is stored for that client. Versions are never
\* removed, so a version stored when set_snapshot was called is stored in
\* every later state.
C12_SnapshotVersionStored ==
    \A c \in ClientIds :
        SnapshotOf(c) # None => versions[<< c, Unwrap(SnapshotOf(c)).version_id >>] # None

\* C12 amended: set_snapshot on a stored client returns Ok(()) and makes the
\* snapshot it is given the client's snapshot, whether or not a version with
\* its version_id is stored, and stores no version; the snapshot's
\* version_id is the one given to the latest successful set_snapshot.
C12_SnapshotVersionAsGiven ==
    [][\A c \in ClientIds :
          clients[c] # None =>
              IF SetsSnapshot(c)
              THEN \A t \in Owners, s \in Snapshot, d \in Payloads :
                       set_snapshot(t, c, s, d) =>
                           /\ result' = Ok(None)
                           /\ SnapshotOf(c)' = Some(s)
                           /\ versions' = versions
              ELSE SnapshotOf(c) # None =>
                       /\ SnapshotOf(c)' # None
                       /\ (Unwrap(SnapshotOf(c)).version_id)' = Unwrap(SnapshotOf(c)).version_id]_vars

\* C12 witness: a client has a snapshot of a version id under which it has
\* no version, while it has a version under another id.
C12_Witness ==
    \E c \in ClientIds, v \in VersionIds :
        /\ SnapshotOf(c) # None
        /\ versions[<< c, Unwrap(SnapshotOf(c)).version_id >>] = None
        /\ versions[<< c, v >>] # None

\* C13: every entry (c, p) -> v of the parent-to-child index points at a
\* stored version (c, v) whose parent_version_id is p, so
\* get_version_by_parent(c, p) returns a version with parent p whenever the
\* index has an entry for (c, p), and never absent.
C13_ChildIndexConsistent ==
    \A c \in ClientIds, p \in VersionIds :
        children[<< c, p >>] # None =>
            /\ get_version_by_parent_result(c, p) # Ok(None)
            /\ Unwrap(get_version_by_parent_result(c, p).val).parent_version_id = p

\* C14: in every state a client has a snapshot exactly if snapshot data is
\* stored for it, so a get_snapshot_data that returns Ok returns data;
\* set_snapshot changes the two together, and on a client that is not
\* stored it returns the no-such-client error and changes none of the maps.
C14_SnapshotWithData ==
    /\ [](\A c \in ClientIds :
             /\ SnapshotOf(c) # None <=> snapshots[c] # None
             /\ \A v \in VersionIds :
                    get_snapshot_data_result(c, v).kind = "Ok" =>
                        get_snapshot_data_result(c, v) # Ok(None))
    /\ [][WriteWithinBound =>
              \A t \in Owners, c \in ClientIds, s \in Snapshot, d \in Payloads :
                  set_snapshot(t, c, s, d) =>
                      IF clients[c] = None
                      THEN /\ result' = NoSuchClient
                           /\ UNCHANGED << inner, written >>
                      ELSE /\ SnapshotOf(c)' = Some(s)
                           /\ snapshots'[c] = Some(d)]_vars

\* C14 witness: a client has a snapshot with its data, and a set_snapshot or
\* get_snapshot_data on a client that is not stored was refused.
C14_Witness ==
    /\ result = NoSuchClient
    /\ \E c \in ClientIds : SnapshotOf(c) # None /\ snapshots[c] # None
    /\ \E c \in ClientIds : clients[c] = None

\* C15: when add_version(c, v2, p, d2) succeeds while the index entry of
\* (c, p) points at another version v1, stored by an earlier
\* add_version(c, v1, p, d1), the entry is overwritten:
\* get_version_by_parent(c, p) returns {v2, p, d2}, and get_version(c, v1)
\* returns the v1 record as before.
C15_ChildLinkOverwritten ==
    [][\A t \in Owners, c \in ClientIds :
          (clients[c] # None /\ WriteWithinBound) =>
              \A v1 \in VersionIds, v2 \in VersionIds, p \in VersionIds :
                  (v1 # v2 /\ children[<< c, p >>] = Some(v1)) =>
                      \A d2 \in Payloads :
                          add_version(t, c, v2, p, d2) =>
                              /\ get_version_by_parent_result(c, p)' =
                                     Ok(Some(Version(v2, p, d2)))
                              /\ get_version_result(c, v1) # Ok(None)
                              /\ get_version_result(c, v1)' = get_version_result(c, v1)]_vars

\* C15 witness: two versions of one client have the same parent, the index
\* entry of that parent points at the one that is the latest, and the other
\* is still stored.
C15_Witness ==
    \E c \in ClientIds, v1 \in VersionIds, v2 \in VersionIds, p \in VersionIds :
        /\ v1 # v2
        /\ versions[<< c, v1 >>] # None
        /\ versions[<< c, v2 >>] # None
        /\ Unwrap(versions[<< c, v1 >>]).parent_version_id = p
        /\ Unwrap(versions[<< c, v2 >>]).parent_version_id = p
        /\ children[<< c, p >>] = Some(v2)
        /\ LatestOf(c) = Some(v2)
        /\ nwrites = 3

\* C16: a thread has a transaction exactly while it holds the lock, from the
\* return of txn() to the drop of the transaction, whatever it calls in
\* between; so at most one transaction is open at a time, and a call on one
\* transaction is never followed by a call on another before the first was
\* dropped.
C16_MutualExclusion ==
    /\ [](\A t \in Threads : pc[t] = "open" <=> lock = Some(t))
    /\ [](Cardinality(Owners) <= 1)
    /\ [][\A t \in Owners :
              \/ pc'[t] = "open" /\ lock' = Some(t)
              \/ drop(t)
              \/ pc'[t] = "panicked"]_vars

\* C16 witness: a transaction that was committed is still open, and another
\* thread is kept waiting in txn().
C16_Witness ==
    \E t \in Threads, u \in Threads :
        /\ pc[t] = "open"
        /\ written[t]
        /\ committed[t]
        /\ pc[u] = "waiting"

\* C17 as stated: every thread that calls txn() obtains its transaction in
\* the end.
C17_EveryCallerGetsTransaction ==
    \A t \in Threads : (pc[t] = "waiting") ~> (pc[t] = "open")

\* C17 amended: every thread that calls txn() leaves the call in the end,
\* with its transaction or, on a poisoned Mutex, with a panic; and there is
\* no deadlock: a waiting thread can take a lock that is free, and a lock
\* that is held is held by an open transaction, which can be dropped.
C17_EveryCallerReturnsOrPanics ==
    /\ \A t \in Threads : (pc[t] = "waiting") ~> (pc[t] \in {"open", "panicked"})
    /\ [](\A t \in Threads :
             pc[t] = "waiting" =>
                 IF lock = None
                 THEN ENABLED txn(t)
                 ELSE pc[Unwrap(lock)] = "open" /\ ENABLED drop(Unwrap(lock)))

\* C17 witness: a thread called txn() while another held the lock, and its
\* call ended in the poisoned-lock panic.
C17_Witness ==
    \E t \in Threads, u \in Threads :
        /\ pc[t] = "panicked"
        /\ pc[u] = "panicked"
        /\ t # u
        /\ result = Panic("poisoned lock")

\* C18: commit is the end of a transaction: a transaction on which commit()
\* was called changes none of the maps any more, so nothing it wrote is left
\* without a commit after it.
C18_CommittedIsTerminal ==
    [][\A t \in Owners : committed[t] => UNCHANGED inner]_vars

\* What is stored for client c: its record, its snapshot data, its versions
\* and its index entries.
StoredFor(c) ==
    << clients[c],
       snapshots[c],
       [v \in VersionIds |-> versions[<< c, v >>]],
       [p \in VersionIds |-> children[<< c, p >>]] >>

\* A step of one of the four reading methods.
Reads ==
    \E t \in Owners, c \in ClientIds :
        \/ get_client(t, c)
        \/ \E v \in VersionIds :
              \/ get_snapshot_data(t, c, v)
              \/ get_version_by_parent(t, c, v)
              \/ get_version(t, c, v)

\* C19: get_client, get_version, get_version_by_parent and
\* get_snapshot_data change neither the maps nor the written flag, whether
\* they return a value or an error; and for a client that is not stored, or
\* an id under which nothing is stored, get_client, get_version and
\* get_version_by_parent return Ok(None), not an error.
C19_ReadsChangeNothing ==
    /\ [][Reads => UNCHANGED << inner, written >>]_vars
    /\ [](\A c \in ClientIds, v \in VersionIds :
             /\ clients[c] = None =>
                    /\ get_client_result(c) = Ok(None)
                    /\ get_version_result(c, v) = Ok(None)
                    /\ get_version_by_parent_result(c, v) = Ok(None)
             /\ versions[<< c, v >>] = None => get_version_result(c, v) = Ok(None)
             /\ children[<< c, v >>] = None => get_version_by_parent_result(c, v) = Ok(None))

\* C19 witness: a transaction that has written nothing is open on a backend
\* that holds a client with a version and a snapshot and lacks another
\* client, and its get_snapshot_data was refused.
C19_Witness ==
    /\ result = SnapshotMismatch
    /\ \E t \in Threads : pc[t] = "open" /\ ~written[t]
    /\ \E c \in ClientIds, v \in VersionIds : versions[<< c, v >>] # None /\ SnapshotOf(c) # None
    /\ \E c \in ClientIds : clients[c] = None

\* C20: a new_client, set_snapshot or add_version for client c, whether it
\* returns Ok, returns an error or panics, leaves what is stored for every
\* other client as it was.
C20_ClientIsolation ==
    [][WriteWithinBound =>
          \A c2 \in ClientIds :
              \/ StoredFor(c2)' = StoredFor(c2)
              \/ \A t \in Owners, c \in ClientIds \ {c2}, v \in VersionIds :
                     /\ ~new_client(t, c, v)
                     /\ ~add_version_overflow(t, c, v)
                     /\ \A p \in VersionIds, d \in Payloads : ~add_version(t, c, v, p, d)
                     /\ \A s \in Snapshot, d \in Payloads : ~set_snapshot(t, c, s, d)]_vars

\* C20 witness: two clients are stored, one has a version under the id that
\* is the other's latest_version_id, and the other has neither that version
\* nor an index entry for its parent.
C20_Witness ==
    \E c \in ClientIds, c2 \in ClientIds, v \in VersionIds :
        /\ c # c2
        /\ versions[<< c, v >>] # None
        /\ LatestOf(c2) = Some(v)
        /\ versions[<< c2, v >>] = None
        /\ children[<< c2, Unwrap(versions[<< c, v >>]).parent_version_id >>] = None

====
